---- MODULE Spec2Model ----
(***************************************************************************)
(* paperize (src/paperize/main.py): a file is base64-encoded and split     *)
(* into framed text parts (mode_paper, prepare_data); the parts, pasted    *)
(* back into text files, are reassembled into the file (mode_file,         *)
(* parse_part).                                                            *)
(*                                                                         *)
(* Text is a sequence of one-character strings, bytes are numbers 0..255.  *)
(* Indexes and slices follow Python: 0-based, negative indexes count from  *)
(* the end, out-of-range slice bounds are clamped.                         *)
(***************************************************************************)
EXTENDS Integers, Sequences, FiniteSets, TLC

(***************************************************************************)
(* Bounds of the model.                                                    *)
(***************************************************************************)
\* Files of 0..MaxSmallLen bytes: every base64 padding length occurs.
MaxSmallLen == 3
\* A file whose encoding has two parts at level H (checksum in the last).
LenTwoParts == 260
\* A file whose encoding at level H ends in a checksum-only extra part.
LenExtraPart == 700
\* A file for which the part count estimated by mode_paper is one digit
\* shorter than the count the first split produces.
LenManyParts == 2425
\* Length of the long file name (header of part 1 longer than a part).
LongNameLen == 340
\* Encodings of at most this many parts are scanned in every order.
MaxPermParts == 4
\* Hand-made inputs of mode_file hold at most this many parts.
MaxForged == 2
\* Part indexes and totals of hand-made parts are 0..MaxForgedNo.
MaxForgedNo == 2
\* prepare_data on its own: data of 0..MaxPrepData characters,
\* part_length in MinPrepLength..MaxPrepLength, no_parts in 0..MaxPrepParts,
\* observed for at most MaxPrepIter passes of its loop.
MaxPrepData == 6
MinPrepLength == 30
MaxPrepLength == 40
MaxPrepParts == 2
MaxPrepIter == 8

(***************************************************************************)
(* Python's str and list operations, as the code uses them.                *)
(***************************************************************************)
Min(S) == CHOOSE x \in S : \A y \in S : x <= y

Max(S) == CHOOSE x \in S : \A y \in S : x >= y

\* A slice bound k of a sequence of length n, as Python clamps it.
SliceBound(n, k) == IF k < 0 THEN Max({0, n + k}) ELSE Min({k, n})

\* s[a:b]
PySlice(s, a, b) ==
    LET lo == SliceBound(Len(s), a)
        hi == SliceBound(Len(s), b)
    IN  IF lo >= hi THEN << >> ELSE SubSeq(s, lo + 1, hi)

\* s[:b]
PyHead(s, b) == PySlice(s, 0, b)

\* s[a:]
PyTail(s, a) == PySlice(s, a, Len(s))

\* s.find(pat): the lowest 0-based index where pat occurs, -1 when none.
Find(s, pat) ==
    LET n == Len(s)
        m == Len(pat)
        hits == {i \in 0..(n - m) :
                    /\ s[i + 1] = pat[1]
                    /\ SubSeq(s, i + 1, i + m) = pat}
    IN  IF m = 0 THEN 0 ELSE IF hits = {} THEN -1 ELSE Min(hits)

\* s.replace(old, ""): every occurrence removed, left to right; an empty old
\* changes nothing.
RECURSIVE Remove(_, _)
Remove(s, old) ==
    LET p == Find(s, old)
    IN  IF old = << >> \/ p = -1 THEN s
        ELSE PyHead(s, p) \o Remove(PyTail(s, p + Len(old)), old)

\* s.replace("\n", "")
StripNL(s) == SelectSeq(s, LAMBDA c : c # "\n")

\* s.split(sep) for a one-character sep.
RECURSIVE Split(_, _)
Split(s, sep) ==
    LET p == Find(s, <<sep>>)
    IN  IF p = -1 THEN <<s>>
        ELSE <<PyHead(s, p)>> \o Split(PyTail(s, p + 1), sep)

\* "".join(list)
RECURSIVE Join(_)
Join(list) == IF list = << >> THEN << >> ELSE Head(list) \o Join(Tail(list))

Digits == <<"0", "1", "2", "3", "4", "5", "6", "7", "8", "9">>

DigitSet == {Digits[i] : i \in 1..10}

DigitVal(c) == CHOOSE d \in 0..9 : Digits[d + 1] = c

\* str(n) of a natural number (format() of the part numbers).
RECURSIVE IntToStr(_)
IntToStr(n) ==
    IF n < 10 THEN <<Digits[n + 1]>>
    ELSE IntToStr(n \div 10) \o <<Digits[(n % 10) + 1]>>

\* Whether int(s) succeeds: an optional sign and at least one digit.
IsInt(s) ==
    LET body == IF s # << >> /\ s[1] \in {"-", "+"} THEN Tail(s) ELSE s
    IN  body # << >> /\ \A i \in 1..Len(body) : body[i] \in DigitSet

RECURSIVE DigitsVal(_)
DigitsVal(s) ==
    IF s = << >> THEN 0
    ELSE 10 * DigitsVal(SubSeq(s, 1, Len(s) - 1)) + DigitVal(s[Len(s)])

\* int(s)
ParseInt(s) ==
    IF s[1] = "-" THEN 0 - DigitsVal(Tail(s))
    ELSE IF s[1] = "+" THEN DigitsVal(Tail(s))
    ELSE DigitsVal(s)

\* textwrap.fill(d, 80) of a text without white space or hyphens: lines of
\* WrapWidth characters joined by newlines.
WrapWidth == 80

Fill(d) ==
    LET n == Len(d)
        total == n + ((n - 1) \div WrapWidth)
    IN  IF n = 0 THEN << >>
        ELSE [j \in 1..total |->
                IF j % (WrapWidth + 1) = 0 THEN "\n"
                ELSE d[j - (j \div (WrapWidth + 1))]]

(***************************************************************************)
(* base64 and sha256 (the standard library).                               *)
(***************************************************************************)
B64Chars ==
    <<"A", "B", "C", "D", "E", "F", "G", "H", "I", "J", "K", "L", "M",
      "N", "O", "P", "Q", "R", "S", "T", "U", "V", "W", "X", "Y", "Z",
      "a", "b", "c", "d", "e", "f", "g", "h", "i", "j", "k", "l", "m",
      "n", "o", "p", "q", "r", "s", "t", "u", "v", "w", "x", "y", "z",
      "0", "1", "2", "3", "4", "5", "6", "7", "8", "9", "+", "/">>

B64Set == {B64Chars[i] : i \in 1..64}

B64Val(c) == CHOOSE v \in 0..63 : B64Chars[v + 1] = c

\* b64encode(bytes).decode("utf-8")
B64Encode(bytes) ==
    LET n == Len(bytes)
        byte(k) == IF k <= n THEN bytes[k] ELSE 0
        ch(j) ==
            LET g == (j - 1) \div 4
                o == (j - 1) % 4
                b1 == byte(3 * g + 1)
                b2 == byte(3 * g + 2)
                b3 == byte(3 * g + 3)
            IN  IF o = 0 THEN B64Chars[(b1 \div 4) + 1]
                ELSE IF o = 1
                     THEN B64Chars[((b1 % 4) * 16 + (b2 \div 16)) + 1]
                ELSE IF o = 2
                     THEN IF 3 * g + 2 > n THEN "="
                          ELSE B64Chars[((b2 % 16) * 4 + (b3 \div 64)) + 1]
                ELSE IF 3 * g + 3 > n THEN "="
                     ELSE B64Chars[(b3 % 64) + 1]
    IN  [j \in 1..(4 * ((n + 2) \div 3)) |-> ch(j)]

\* b64decode(s), which is binascii.a2b_base64 in its non-strict mode:
\* characters outside the alphabet are skipped; a "=" that completes a quad
\* begun by two or three characters ends the input; otherwise a quad left
\* incomplete at the end is an error (binascii.Error). The bits of the last
\* character of an incomplete quad that no byte takes are dropped.
B64Decode(s) ==
    LET n == Len(s)
        alpha(p) == {j \in 1..p : s[j] \in B64Set}
        stops(p) ==
            LET q == Cardinality(alpha(p)) % 4
                lastA == Max(alpha(p) \cup {0})
                pads == Cardinality({j \in (lastA + 1)..p : s[j] = "="})
            IN  q >= 2 /\ q + pads >= 4
        stopAt == {p \in 1..n : s[p] = "=" /\ stops(p)}
        upto == IF stopAt = {} THEN n ELSE Min(stopAt) - 1
        A == SelectSeq(SubSeq(s, 1, upto), LAMBDA c : c \in B64Set)
        m == Len(A)
        r == m % 4
        nb == 3 * (m \div 4) + (IF r = 0 THEN 0 ELSE r - 1)
        byte(k) ==
            LET g == (k - 1) \div 3
                o == (k - 1) % 3
                c0 == B64Val(A[4 * g + o + 1])
                c1 == B64Val(A[4 * g + o + 2])
            IN  IF o = 0 THEN c0 * 4 + (c1 \div 16)
                ELSE IF o = 1 THEN (c0 % 16) * 16 + (c1 \div 4)
                ELSE (c0 % 4) * 64 + c1
    IN  IF stopAt = {} /\ r # 0 THEN [ok |-> FALSE, bytes |-> << >>]
        ELSE [ok |-> TRUE, bytes |-> [k \in 1..nb |-> byte(k)]]

HexChars ==
    <<"0", "1", "2", "3", "4", "5", "6", "7",
      "8", "9", "a", "b", "c", "d", "e", "f">>

\* Length of hashlib's hexdigest of a sha256.
DigestLen == 64

RECURSIVE WeightedSum(_, _, _)
WeightedSum(bytes, lo, hi) ==
    IF lo > hi THEN 0
    ELSE IF lo = hi THEN lo * (bytes[lo] + 1)
    ELSE LET mid == (lo + hi) \div 2
         IN  WeightedSum(bytes, lo, mid) + WeightedSum(bytes, mid + 1, hi)

\* sha256(bytes).hexdigest(). hashlib is not part of the repository: the
\* digest is modelled as DigestLen lowercase hex digits that are a function
\* of the bytes (a position-weighted sum, which tells apart any two byte
\* sequences that differ in one base64 character).
Sha256Hex(bytes) ==
    LET v == WeightedSum(bytes, 1, Len(bytes))
        digit(j) ==
            LET e == DigestLen - j
            IN  IF e > 7 THEN "0" ELSE HexChars[((v \div (16 ^ e)) % 16) + 1]
    IN  [j \in 1..DigestLen |-> digit(j)]

(***************************************************************************)
(* The framing (src/paperize/main.py, lines 16-31).                        *)
(***************************************************************************)
Levels == {"L", "M", "Q", "H"}

MAX_LENGTH == [l \in Levels |->
    IF l = "L" THEN 635 ELSE IF l = "M" THEN 627
    ELSE IF l = "Q" THEN 455 ELSE 369]

\* "---pprzv1:1/{parts}:n:{file_name}---\n"
FILE_HEADER(parts, file_name) ==
    <<"-", "-", "-", "p", "p", "r", "z", "v", "1", ":", "1", "/">>
    \o IntToStr(parts) \o <<":", "n", ":">> \o file_name
    \o <<"-", "-", "-", "\n">>

\* "---pprzv1:{part}/{parts}---\n"
PART_HEADER(part, parts) ==
    <<"-", "-", "-", "p", "p", "r", "z", "v", "1", ":">>
    \o IntToStr(part) \o <<"/">> \o IntToStr(parts)
    \o <<"-", "-", "-", "\n">>

\* "---pprz:end---"
FIND_TRAILER ==
    <<"-", "-", "-", "p", "p", "r", "z", ":", "e", "n", "d", "-", "-", "-">>

\* "\n---pprz:end---"
PART_TRAILER == <<"\n">> \o FIND_TRAILER

\* "---sha256sum"
SHA_TAG ==
    <<"-", "-", "-", "s", "h", "a", "2", "5", "6", "s", "u", "m">>

\* "---"
DASHES == <<"-", "-", "-">>

\* "\n---sha256sum:{sum}---"
CHECKSUM(sum) == <<"\n">> \o SHA_TAG \o <<":">> \o sum \o DASHES

(***************************************************************************)
(* prepare_data (lines 182-208): its frame is [data, i, ret].              *)
(***************************************************************************)
\* Lines 187-193: the first part, with the file header.
PrepFirst(data, no_parts, part_length, file_name) ==
    LET file_header == FILE_HEADER(no_parts, file_name)
        first_part_length ==
            part_length - Len(file_header) - Len(PART_TRAILER)
        first_part == PyHead(Fill(data), first_part_length)
    IN  [ret |-> <<file_header \o first_part \o PART_TRAILER>>,
         data |-> PyTail(Fill(data), first_part_length),
         i |-> 2]

\* Lines 195-201: one pass of the loop `while data`.
PrepPass(f, no_parts, part_length) ==
    LET data == StripNL(f.data)
        part_header == PART_HEADER(f.i, no_parts)
        length == part_length - Len(part_header) - Len(PART_TRAILER)
        part == PyHead(Fill(data), length)
    IN  [ret |-> Append(f.ret, part_header \o part \o PART_TRAILER),
         data |-> PyTail(Fill(data), length),
         i |-> f.i + 1]

\* Lines 202-208: the checksum, in the last part or in a part of its own.
PrepChecksum(ret, no_parts, part_length, hashsum) ==
    LET checksum == CHECKSUM(hashsum)
        n == Len(ret)
    IN  IF Len(ret[n]) + Len(checksum) < part_length
        THEN [ret EXCEPT ![n] = ret[n] \o checksum]
        ELSE Append(ret,
                    PyHead(PART_HEADER(n + 1, no_parts), -1)
                    \o PART_TRAILER \o checksum)

RECURSIVE PrepLoop(_, _, _)
PrepLoop(f, no_parts, part_length) ==
    IF f.data = << >> THEN f
    ELSE PrepLoop(PrepPass(f, no_parts, part_length), no_parts, part_length)

prepare_data(data, no_parts, part_length, file_name, hashsum) ==
    PrepChecksum(
        PrepLoop(PrepFirst(data, no_parts, part_length, file_name),
                 no_parts, part_length).ret,
        no_parts, part_length, hashsum)

(***************************************************************************)
(* parse_part (lines 114-132). None is the empty text: the caller only     *)
(* tests the file name for truth.                                          *)
(***************************************************************************)
\* Lines 122-126, on the part without its trailer: the header, from the
\* first "---" to the one that follows it, and the data behind it.
CutHeader(part1) ==
    LET part == PyTail(part1, Find(part1, DASHES))
        end == Find(PyTail(part, 3), DASHES)
    IN  [header |-> PyHead(part, end + 6), data |-> PyTail(part, end + 6)]

\* Lines 128-132, on the header split at its colons. A missing field or a
\* part number that is no number raises.
ReadHeader(header, data) ==
    LET nums == IF Len(header) >= 2 THEN Split(header[2], "/") ELSE << >>
        err == IF Len(header) < 2 THEN "IndexError"
               ELSE IF Len(nums) # 2 THEN "ValueError"
               ELSE IF ~IsInt(nums[1]) \/ ~IsInt(nums[2]) THEN "ValueError"
               ELSE ""
    IN  [err |-> err,
         data |-> data,
         part_no |-> IF err = "" THEN ParseInt(nums[1]) - 1 ELSE 0,
         no_parts |-> IF err = "" THEN ParseInt(nums[2]) ELSE 0,
         file_name |-> IF Len(header) = 4 THEN header[4] ELSE << >>]

parse_part(part0) ==
    LET cut == CutHeader(Remove(part0, FIND_TRAILER))
    IN  ReadHeader(Split(Remove(cut.header, DASHES), ":"), cut.data)

(***************************************************************************)
(* mode_file (lines 52-112). Its frame m holds the locals, the position pc *)
(* and how the run ended (status, with what it printed in report); fs is   *)
(* the set of files of the working directory.                              *)
(***************************************************************************)
NewFrame(text) ==
    [pc |-> "read", file_contents |-> text, checksum |-> << >>,
     parts |-> << >>, k |-> 0, data |-> << >>, read_parts |-> << >>,
     no_parts |-> 0, file_name |-> << >>, decoded |-> << >>,
     status |-> "", report |-> << >>]

IdleFrame == [NewFrame(<< >>) EXCEPT !.pc = "idle"]

\* exit(2) after a message, or an exception nobody catches.
Stop(m, status, report) ==
    [m EXCEPT !.pc = "done", !.status = status, !.report = report]

\* Lines 69-73.
RECURSIVE Segment(_)
Segment(file_contents) ==
    IF file_contents = << >> THEN << >>
    ELSE LET end == Find(file_contents, FIND_TRAILER) + Len(FIND_TRAILER)
         IN  <<PyHead(file_contents, end)>>
             \o Segment(PyTail(file_contents, end))

\* Lines 54-77: read the files, take the checksum out, cut the parts.
MF_Read(m) ==
    LET contents == StripNL(m.file_contents)
        begin == Find(contents, SHA_TAG)
        end == Find(PyTail(contents, begin + 3), DASHES)
        marker == PySlice(contents, begin, begin + end + 6)
        rest == Remove(contents, marker)
        fields == Split(Remove(marker, DASHES), ":")
    IN  IF Len(fields) < 2
        THEN Stop([m EXCEPT !.file_contents = rest], "IndexError", << >>)
        ELSE [m EXCEPT !.pc = "loop", !.file_contents = << >>,
                       !.checksum = fields[2], !.parts = Segment(rest)]

\* Lines 80-94: what the loop does with the parsed part p. The first part
\* read is the one that finds no_parts still 0.
StorePart(m, p) ==
    LET first == (m.no_parts = 0)
        n == IF first THEN p.no_parts ELSE m.no_parts
        data == IF first THEN [i \in 1..n |-> << >>] ELSE m.data
        read_parts == IF first THEN [i \in 1..n |-> 0] ELSE m.read_parts
        slot == IF p.part_no < 0 THEN n + p.part_no + 1 ELSE p.part_no + 1
        alloc == [m EXCEPT !.no_parts = n, !.data = data,
                           !.read_parts = read_parts]
    IN  IF p.err # "" THEN Stop(m, p.err, << >>)
        ELSE IF ~first /\ p.no_parts # m.no_parts
        THEN Stop(m, "InconsistentTotal", <<p.no_parts, m.no_parts>>)
        ELSE IF slot < 1 \/ slot > Len(data)
        THEN Stop(alloc, "IndexError", << >>)
        ELSE [alloc EXCEPT
                !.data = [data EXCEPT ![slot] = p.data],
                !.read_parts = [read_parts EXCEPT ![slot] = 1],
                !.file_name = IF p.file_name # << >> THEN p.file_name
                              ELSE m.file_name,
                !.k = m.k + 1]

\* MF_Part with line 87 gone: a later part's total is taken to agree.
MF_PartAnyTotal(m) ==
    LET p == parse_part(m.parts[m.k + 1])
    IN  StorePart(m, [p EXCEPT !.no_parts = IF m.no_parts = 0 THEN @
                                            ELSE m.no_parts])

\* Lines 78-94: one pass of `for part in parts`.
MF_Part(m) == StorePart(m, parse_part(m.parts[m.k + 1]))

\* The 1-based numbers of the parts not read, in order (lines 97-99).
RECURSIVE Missing(_, _)
Missing(read_parts, i) ==
    IF i > Len(read_parts) THEN << >>
    ELSE (IF read_parts[i] # 1 THEN <<i>> ELSE << >>)
         \o Missing(read_parts, i + 1)

\* MF_Complete with the test of line 95 gone.
MF_CompleteSkipped(m) ==
    IF m.k = 0 THEN Stop(m, "TypeError", << >>)
    ELSE [m EXCEPT !.pc = "isfile"]

\* Lines 95-100. read_parts is None when no part was read: sum(None) raises.
MF_Complete(m) ==
    IF m.k = 0 THEN Stop(m, "TypeError", << >>)
    ELSE IF Cardinality({i \in 1..Len(m.read_parts) : m.read_parts[i] = 1})
            # m.no_parts
    THEN Stop(m, "NotAllParts", Missing(m.read_parts, 1))
    ELSE [m EXCEPT !.pc = "isfile"]

\* os.path.isfile
isfile(fs, name) == \E f \in fs : f.name = name

\* Lines 101-103.
MF_IsFile(m, fs) ==
    IF isfile(fs, m.file_name) THEN Stop(m, "FileExists", << >>)
    ELSE [m EXCEPT !.pc = "decode"]

\* Lines 104-105.
MF_Decode(m) ==
    LET r == B64Decode(Join(m.data))
    IN  IF ~r.ok THEN Stop(m, "binascii.Error", << >>)
        ELSE [m EXCEPT !.pc = "write", !.decoded = r.bytes]

\* open(file_name, "xb") fails on an empty name and on an existing file.
CanCreate(fs, name) == name # << >> /\ ~isfile(fs, name)

\* Lines 106-107.
MF_Write(m, fs) ==
    IF ~CanCreate(fs, m.file_name)
    THEN Stop(m, IF m.file_name = << >> THEN "FileNotFoundError"
                 ELSE "FileExistsError", << >>)
    ELSE [m EXCEPT !.pc = "hash"]

WriteFs(m, fs) ==
    IF CanCreate(fs, m.file_name)
    THEN fs \cup {[name |-> m.file_name, content |-> m.decoded]}
    ELSE fs

\* Lines 108-112.
MF_Hash(m) ==
    IF m.checksum # Sha256Hex(m.decoded)
    THEN Stop(m, "ChecksumMismatch", << >>)
    ELSE Stop(m, "ok", << >>)

\* mode_file from frame m to its end: the frame and the files it leaves.
RECURSIVE mode_file(_, _)
mode_file(m, fs) ==
    IF m.pc = "done" THEN [m |-> m, fs |-> fs]
    ELSE IF m.pc = "read" THEN mode_file(MF_Read(m), fs)
    ELSE IF m.pc = "loop" /\ m.k < Len(m.parts) THEN mode_file(MF_Part(m), fs)
    ELSE IF m.pc = "loop" THEN mode_file(MF_Complete(m), fs)
    ELSE IF m.pc = "isfile" THEN mode_file(MF_IsFile(m, fs), fs)
    ELSE IF m.pc = "decode" THEN mode_file(MF_Decode(m), fs)
    ELSE IF m.pc = "write" THEN mode_file(MF_Write(m, fs), WriteFs(m, fs))
    ELSE mode_file(MF_Hash(m), fs)

(***************************************************************************)
(* mode_paper (lines 149-166), up to the parts it hands to the renderer.   *)
(***************************************************************************)
mode_paper(bytes, file_name, ec_level) ==
    LET hash_string == Sha256Hex(bytes)
        data == B64Encode(bytes)
        parts == Len(data) \div MAX_LENGTH[ec_level]
        split_data == prepare_data(data, parts, MAX_LENGTH[ec_level],
                                   file_name, hash_string)
    IN  IF Len(split_data) # parts
        THEN prepare_data(data, Len(split_data), MAX_LENGTH[ec_level],
                          file_name, hash_string)
        ELSE split_data

(***************************************************************************)
(* The runs. `paperize paper FILE` turns file into split_data; somebody    *)
(* scans the codes and pastes the text (scan says how); `paperize file`    *)
(* runs on that text, mf being its frame and fs the directory it runs in,  *)
(* which was fs0 when it started. pd is a call of prepare_data on its own. *)
(***************************************************************************)
VARIABLES file, split_data, scan, mf, fs, fs0, pd

vars == <<file, split_data, scan, mf, fs, fs0, pd>>

\* The n bytes of an input file.
Content(n) == [i \in 1..n |-> ((i - 1) * 7 + 3) % 256]

NameF == <<"f">>

NameColon == <<"a", ":", "b">>

\* "a---sha256sum:bbb"
NameTag == <<"a">> \o SHA_TAG \o <<":", "b", "b", "b">>

NameLong == [i \in 1..LongNameLen |-> "n"]

Files ==
    {[bytes |-> Content(n), file_name |-> NameF, level |-> l] :
        n \in (0..MaxSmallLen) \cup {LenTwoParts, LenExtraPart},
        l \in Levels}
    \cup {[bytes |-> Content(n), file_name |-> nm, level |-> "H"] :
        n \in {MaxSmallLen, LenTwoParts},
        nm \in {NameColon, NameTag, NameLong}}
    \cup {[bytes |-> Content(LenManyParts), file_name |-> NameF,
           level |-> "H"]}

\* No file was encoded: mode_file is given text made by hand.
NoFile == [bytes |-> << >>, file_name |-> NameF, level |-> "none"]

\* What a file that is already in the directory holds (no byte sequence).
OldContent == <<256>>

NoScan == [kind |-> "none", order |-> << >>, i |-> 0, pos |-> 0,
           ch |-> "", forged |-> << >>]

IdleCall == [pc |-> "idle", data |-> << >>, no_parts |-> 0,
             part_length |-> 0, file_name |-> << >>, hashsum |-> << >>,
             f |-> [ret |-> << >>, data |-> << >>, i |-> 0],
             ret |-> << >>]

Init ==
    /\ file \in Files \cup {NoFile}
    /\ split_data = << >>
    /\ scan = NoScan
    /\ mf = IdleFrame
    /\ fs0 \in {{}, {[name |-> file.file_name, content |-> OldContent]}}
    /\ fs = fs0
    /\ pd = IdleCall

ModePaper ==
    /\ file.level \in Levels
    /\ split_data = << >>
    /\ split_data' = mode_paper(file.bytes, file.file_name, file.level)
    /\ UNCHANGED <<file, scan, mf, fs, fs0, pd>>

(***************************************************************************)
(* The text pasted from the scanned codes: one part after the other, each  *)
(* followed by a line break.                                               *)
(***************************************************************************)
Text(parts) == Join([j \in 1..Len(parts) |-> parts[j] \o <<"\n">>])

Identity(n) == [j \in 1..n |-> j]

Perms(n) == {p \in [1..n -> 1..n] : \A a, b \in 1..n : p[a] = p[b] => a = b}

InOrder(order) == [j \in 1..Len(order) |-> split_data[order[j]]]

CanScan == split_data # << >> /\ mf.pc = "idle"

Scanned(sc, parts) ==
    /\ scan' = sc
    /\ mf' = NewFrame(Text(parts))
    /\ UNCHANGED <<file, split_data, fs, fs0, pd>>

ScanInOrder ==
    /\ CanScan
    /\ LET order == Identity(Len(split_data))
       IN  Scanned([NoScan EXCEPT !.kind = "inorder", !.order = order],
                   InOrder(order))

ScanPermuted ==
    /\ CanScan
    /\ Len(split_data) <= MaxPermParts
    /\ \E order \in Perms(Len(split_data)) \ {Identity(Len(split_data))} :
          Scanned([NoScan EXCEPT !.kind = "permuted", !.order = order],
                  InOrder(order))

\* Part i is left out.
ScanOmit ==
    /\ CanScan
    /\ Len(split_data) <= MaxPermParts
    /\ \E i \in 1..Len(split_data) :
          LET order == SelectSeq(Identity(Len(split_data)),
                                 LAMBDA j : j # i)
          IN  Scanned([NoScan EXCEPT !.kind = "omit", !.order = order,
                                     !.i = i],
                      InOrder(order))

\* The payload of a part the encoder made is part[PayloadStart:PayloadEnd].
PayloadStart(part) == Find(part, <<"\n">>) + 1

PayloadEnd(part) == Find(part, PART_TRAILER)

\* The payload characters that get damaged: the first one and the last one
\* that is a base64 digit.
TamperPos(part) ==
    LET digits == {q \in PayloadStart(part)..(PayloadEnd(part) - 1) :
                      part[q + 1] \in B64Set}
    IN  IF digits = {} THEN {} ELSE {Min(digits), Max(digits)}

\* What a base64 digit c is misread as: the digits one and thirty-two
\* places away, and a character that is no base64 digit.
TamperChars(c) ==
    LET v == B64Val(c)
    IN  {B64Chars[(IF v % 2 = 0 THEN v + 1 ELSE v - 1) + 1],
         B64Chars[((v + 32) % 64) + 1],
         "!"}

\* Character pos of part i is misread as ch.
ScanTamper ==
    /\ CanScan
    /\ Len(split_data) <= MaxPermParts
    /\ \E i \in 1..Len(split_data) :
       \E pos \in TamperPos(split_data[i]) :
       \E ch \in TamperChars(split_data[i][pos + 1]) :
          LET order == Identity(Len(split_data))
          IN  Scanned([NoScan EXCEPT !.kind = "tamper", !.order = order,
                                     !.i = i, !.pos = pos, !.ch = ch],
                      [InOrder(order) EXCEPT ![i][pos + 1] = ch])

\* The parts of another encoding: a one-byte file, also named f.
ForeignParts == mode_paper(Content(1), NameF, "H")

\* A part of another encoding is pasted after the first i parts.
ScanForeign ==
    /\ CanScan
    /\ Len(split_data) <= MaxPermParts
    /\ \E i \in 0..Len(split_data) :
          LET order == Identity(Len(split_data))
          IN  Scanned([NoScan EXCEPT !.kind = "foreign", !.order = order,
                                     !.i = i],
                      SubSeq(split_data, 1, i) \o ForeignParts
                      \o SubSeq(split_data, i + 1, Len(split_data)))

\* A part written by hand in the encoder's format (FILE_HEADER for part 1).
ForgedPart(part, parts) ==
    (IF part = 1 THEN FILE_HEADER(parts, NameF)
     ELSE PART_HEADER(part, parts))
    \o B64Encode(Content(MaxSmallLen)) \o PART_TRAILER

ForgedSeqs ==
    UNION {[1..n -> (0..MaxForgedNo) \X (0..MaxForgedNo)] : n \in 0..MaxForged}

\* mode_file is run on hand-made parts, the checksum after the last.
ScanForged ==
    /\ file.level = "none"
    /\ mf.pc = "idle"
    /\ \E fp \in ForgedSeqs :
          /\ scan' = [NoScan EXCEPT !.kind = "forged", !.forged = fp]
          /\ mf' = NewFrame(
                Text([j \in 1..Len(fp) |-> ForgedPart(fp[j][1], fp[j][2])])
                \o CHECKSUM(Sha256Hex(Content(MaxSmallLen))))
    /\ UNCHANGED <<file, split_data, fs, fs0, pd>>

(***************************************************************************)
(* mode_file, step by step.                                                *)
(***************************************************************************)
Step(m) ==
    /\ mf' = m
    /\ UNCHANGED <<file, split_data, scan, fs, fs0, pd>>

Read == mf.pc = "read" /\ Step(MF_Read(mf))

Part == mf.pc = "loop" /\ mf.k < Len(mf.parts) /\ Step(MF_Part(mf))

Complete == mf.pc = "loop" /\ mf.k = Len(mf.parts) /\ Step(MF_Complete(mf))

IsFile == mf.pc = "isfile" /\ Step(MF_IsFile(mf, fs))

Decode == mf.pc = "decode" /\ Step(MF_Decode(mf))

Write ==
    /\ mf.pc = "write"
    /\ mf' = MF_Write(mf, fs)
    /\ fs' = WriteFs(mf, fs)
    /\ UNCHANGED <<file, split_data, scan, fs0, pd>>

Hash == mf.pc = "hash" /\ Step(MF_Hash(mf))

Next ==
    \/ ModePaper
    \/ ScanInOrder \/ ScanPermuted \/ ScanOmit \/ ScanTamper
    \/ ScanForeign \/ ScanForged
    \/ Read \/ Part \/ Complete \/ IsFile \/ Decode \/ Write \/ Hash

Spec == Init /\ [][Next]_vars

(***************************************************************************)
(* prepare_data called on its own, pass by pass.                           *)
(***************************************************************************)
PrepText == B64Encode(Content(MaxPrepData))

InitPrepare ==
    /\ file = NoFile
    /\ split_data = << >>
    /\ scan = NoScan
    /\ mf = IdleFrame
    /\ fs0 = {}
    /\ fs = {}
    /\ \E n \in 0..MaxPrepData, k \in 0..MaxPrepParts,
          len \in MinPrepLength..MaxPrepLength :
          pd = [IdleCall EXCEPT !.pc = "call", !.data = PyHead(PrepText, n),
                                !.no_parts = k, !.part_length = len,
                                !.file_name = NameF,
                                !.hashsum = Sha256Hex(Content(n))]

PrepStep(call) ==
    /\ pd' = call
    /\ UNCHANGED <<file, split_data, scan, mf, fs, fs0>>

PD_First ==
    /\ pd.pc = "call"
    /\ PrepStep([pd EXCEPT !.pc = "loop",
                    !.f = PrepFirst(pd.data, pd.no_parts, pd.part_length,
                                    pd.file_name)])

PD_Pass ==
    /\ pd.pc = "loop"
    /\ pd.f.data # << >>
    /\ pd.f.i < MaxPrepIter + 2
    /\ PrepStep([pd EXCEPT !.f = PrepPass(pd.f, pd.no_parts, pd.part_length)])

PD_Return ==
    /\ pd.pc = "loop"
    /\ pd.f.data = << >>
    /\ PrepStep([pd EXCEPT !.pc = "return",
                    !.ret = PrepChecksum(pd.f.ret, pd.no_parts,
                                         pd.part_length, pd.hashsum)])

NextPrepare == PD_First \/ PD_Pass \/ PD_Return

SpecPrepare == InitPrepare /\ [][NextPrepare]_vars

(***************************************************************************)
(* The claims.                                                             *)
(***************************************************************************)
\* C1: the parts of a file, scanned in order into an empty directory, are
\* decoded without an error into a file of the same name and bytes.
C1_RoundTrip ==
    (scan.kind = "inorder" /\ fs0 = {} /\ mf.pc = "done")
    => /\ mf.status = "ok"
       /\ fs = {[name |-> file.file_name, content |-> file.bytes]}

\* The header part j of an encoding of `total` parts must start with.
ExpectedHeader(j, total, file_name) ==
    IF j = 1 THEN FILE_HEADER(total, file_name)
    ELSE PyHead(PART_HEADER(j, total), -1) \o <<"\n">>

\* C2: every part mode_paper hands on declares, in its header, its place
\* in the sequence and the number of parts of the sequence.
C2_DeclaredTotal ==
    \A j \in 1..Len(split_data) :
        LET h == ExpectedHeader(j, Len(split_data), file.file_name)
        IN  PyHead(split_data[j], Len(h)) = h

\* C3: mode_paper never hands on a part longer than the capacity of the
\* level (it would have to fail instead).
C3_Capacity ==
    \A j \in 1..Len(split_data) :
        Len(split_data[j]) <= MAX_LENGTH[file.level]

\* C4: with part i of two or more left out, mode_file ends reporting that
\* exactly part i is missing, and writes no file.
C4_MissingPart ==
    (scan.kind = "omit" /\ Len(split_data) >= 2 /\ mf.pc = "done")
    => /\ mf.status = "NotAllParts"
       /\ mf.report = <<scan.i>>
       /\ fs = fs0

\* C5: the parts scanned in another order leave the file (name and bytes)
\* that the parts scanned in order leave.
C5_OrderIndependent ==
    (scan.kind = "permuted" /\ mf.pc = "done")
    => fs = mode_file(NewFrame(Text(split_data)), fs0).fs

\* C6: the total declared by the first part read is the one mode_file
\* keeps, and a pass of the loop over a later part that declares another
\* total ends the run with InconsistentTotal, both totals reported and no
\* file touched.
C6_InconsistentTotal ==
    [][/\ mf'.k >= 1 => mf'.no_parts = parse_part(mf'.parts[1]).no_parts
       /\ (mf.pc = "loop" /\ mf.k >= 1 /\ mf.k < Len(mf.parts))
          => LET p == parse_part(mf.parts[mf.k + 1])
                 fixed == parse_part(mf.parts[1]).no_parts
             IN  (p.err = "" /\ p.no_parts # fixed)
                 => /\ mf'.pc = "done"
                    /\ mf'.status = "InconsistentTotal"
                    /\ mf'.report = <<p.no_parts, fixed>>
                    /\ fs' = fs]_vars

\* C6, witness: a part of another encoding, pasted among the parts of this
\* one, ended the run with InconsistentTotal.
C6_Witness ==
    /\ scan.kind = "foreign"
    /\ mf.k >= 1
    /\ mf.status = "InconsistentTotal"
    /\ mf.report = <<1, Len(split_data)>>

\* C7: with one payload character misread, mode_file never ends with the
\* checksum found to match.
C7_TamperDetected ==
    (scan.kind = "tamper" /\ mf.pc = "done") => mf.status # "ok"

\* C8: prepare_data returns. Its loop `while data` ends because every pass
\* leaves less data than it found; a pass that does not is repeated for
\* ever, the room of a part never growing with its number.
C8_SplitterProgress ==
    [][(pd.pc = "loop" /\ pd'.pc = "loop")
       => Len(StripNL(pd'.f.data)) < Len(StripNL(pd.f.data))]_vars

\* The test of line 95, on the frame: every slot is marked read.
AllRead(m) ==
    /\ Len(m.read_parts) = m.no_parts
    /\ \A i \in 1..m.no_parts : m.read_parts[i] = 1

\* The test of line 87, on the input: no part declares another total than
\* the first.
SameTotals(m) ==
    \A j \in 1..Len(m.parts) :
        parse_part(m.parts[j]).no_parts = parse_part(m.parts[1]).no_parts

\* C9: mode_file creates at most one file and changes none; it creates it
\* only when all parts declared one total, all slots were read, no file of
\* that name was there and the base64 text decoded; a run that ends in any
\* other way than with the checksum compared leaves the directory as it
\* was; the checksum is compared after the write, so that a mismatch is
\* reported with the decoded bytes already in the file.
C9_WriteAfterChecks ==
    /\ fs0 \subseteq fs
    /\ Cardinality(fs \ fs0) <= 1
    /\ fs # fs0
       => /\ mf.pc \in {"hash", "done"}
          /\ mf.status \in {"", "ok", "ChecksumMismatch"}
          /\ SameTotals(mf)
          /\ AllRead(mf)
          /\ ~isfile(fs0, mf.file_name)
          /\ B64Decode(Join(mf.data)).ok
          /\ fs \ fs0 = {[name |-> mf.file_name,
                          content |-> B64Decode(Join(mf.data)).bytes]}
    /\ (mf.pc = "done" /\ mf.status \notin {"ok", "ChecksumMismatch"})
       => fs = fs0
    /\ mf.status \in {"ok", "ChecksumMismatch"} => fs # fs0
    /\ (mf.pc = "done" /\ fs # fs0)
       => (mf.status = "ChecksumMismatch"
           <=> \E f \in fs \ fs0 : mf.checksum # Sha256Hex(f.content))

\* C9, witness: a run that reported a checksum mismatch after it wrote the
\* file.
C9_Witness ==
    /\ mf.pc = "done"
    /\ mf.status = "ChecksumMismatch"
    /\ fs # fs0

\* C10: a slot of the payload array is marked read only by a part whose
\* header index is the slot's number.
C10_SlotIndex ==
    \A s \in 1..Len(mf.read_parts) :
        mf.read_parts[s] = 1
        => \E j \in 1..mf.k :
              LET p == parse_part(mf.parts[j])
              IN  p.err = "" /\ p.part_no + 1 = s
====
